---- MODULE Spec2Model ----
(***************************************************************************)
(* A model of the HTTP/2 core in src/h2: the connection state machine and  *)
(* its facade (connection.py), the flow-control bound check and the header *)
(* validation pipeline (utilities.py).                                     *)
(***************************************************************************)
EXTENDS Integers, Sequences, FiniteSets, TLC

VARIABLES
    conn_module,   \* outcome of executing the body of h2/connection.py
    state,         \* H2ConnectionStateMachine.state ("NoMachine": no object exists)
    streams,       \* H2Connection.streams (the stream ids in the map)
    inputs,        \* the inputs handed to process_input so far, in order
    op,            \* the last operation attempted ("none" before the first)
    arg,           \* its argument
    err,           \* what it raised ("none": it returned)
    current,       \* guard_increment_window: the window before the increment
    increment,     \* guard_increment_window: the increment
    new_size,      \* guard_increment_window: the value returned
    headers,       \* the header block handed to the header functions
    hdr_validation_flags,  \* the HeaderValidationFlags handed with it
    result         \* what the header function returned or raised

conn_vars == <<conn_module, state, streams, inputs>>
call_vars == <<op, arg, err>>
flow_vars == <<current, increment, new_size>>
hdr_vars == <<headers, hdr_validation_flags, result>>
vars == <<conn_vars, call_vars, flow_vars, hdr_vars>>

(***************************************************************************)
(* Bounds                                                                  *)
(***************************************************************************)
MaxInputs == 3
MaxStreamId == 2
MaxDelta == 2
MaxBlockLen == 2
MaxCheckLen == 3
MaxOutLen == 2
MaxInfoLen == 3

(***************************************************************************)
(* connection.py                                                           *)
(***************************************************************************)
ConnectionState == {"IDLE", "CLIENT_OPEN", "SERVER_OPEN", "CLOSED"}

ConnectionInputs ==
    {"SEND_HEADERS", "SEND_PUSH_PROMISE", "SEND_DATA", "SEND_GOAWAY",
     "SEND_WINDOW_UPDATE", "SEND_PING",
     "RECV_HEADERS", "RECV_PUSH_PROMISE", "RECV_DATA", "RECV_GOAWAY",
     "RECV_WINDOW_UPDATE", "RECV_PING"}

\* The names bound in the module namespace when the class body of
\* H2ConnectionStateMachine runs (lines 8-33: the imports and the two enums).
ModuleGlobals == {"Enum", "ProtocolError", "ConnectionState", "ConnectionInputs"}

Row(ns, from, input, to) == [ns |-> ns, from |-> from, input |-> input, to |-> to]

\* The dict display of lines 62-92, one row per line, in order.  ns is the
\* name the line uses for the inputs enum.
TransitionRows == <<
    Row("ConnectionInputs", "IDLE", "SEND_HEADERS", "CLIENT_OPEN"),
    Row("ConnectionInputs", "IDLE", "RECV_HEADERS", "SERVER_OPEN"),
    Row("ConnectionInputs", "CLIENT_OPEN", "SEND_HEADERS", "CLIENT_OPEN"),
    Row("ConnectionInputs", "CLIENT_OPEN", "SEND_DATA", "CLIENT_OPEN"),
    Row("ConnectionInputs", "CLIENT_OPEN", "SEND_GOAWAY", "CLOSED"),
    Row("ConnectionInputs", "CLIENT_OPEN", "SEND_WINDOW_UPDATE", "CLIENT_OPEN"),
    Row("ConnectionInputs", "CLIENT_OPEN", "SEND_PING", "CLIENT_OPEN"),
    Row("ConnectionInputs", "CLIENT_OPEN", "RECV_HEADERS", "CLIENT_OPEN"),
    Row("ConnectionInputs", "CLIENT_OPEN", "RECV_PUSH_PROMISE", "CLIENT_OPEN"),
    Row("ConnectionInputs", "CLIENT_OPEN", "RECV_DATA", "CLIENT_OPEN"),
    Row("ConnectionInputs", "CLIENT_OPEN", "RECV_GOAWAY", "CLOSED"),
    Row("ConnectionInputs", "CLIENT_OPEN", "RECV_WINDOW_UPDATE", "CLIENT_OPEN"),
    Row("ConnectionInputs", "CLIENT_OPEN", "RECV_PING", "CLIENT_OPEN"),
    Row("ConnectionInputs", "SERVER_OPEN", "SEND_HEADERS", "SERVER_OPEN"),
    Row("ConnectionInputs", "SERVER_OPEN", "SEND_PUSH_PROMISE", "SERVER_OPEN"),
    Row("ConnectionInputs", "SERVER_OPEN", "SEND_DATA", "SERVER_OPEN"),
    Row("ConnectionInputs", "SERVER_OPEN", "SEND_GOAWAY", "CLOSED"),
    Row("ConnectionInputs", "SERVER_OPEN", "SEND_WINDOW_UPDATE", "SERVER_OPEN"),
    Row("ConnectionInputs", "SERVER_OPEN", "SEND_PING", "SERVER_OPEN"),
    Row("ConnectionInputs", "SERVER_OPEN", "RECV_HEADERS", "SERVER_OPEN"),
    Row("ConnectionInputs", "SERVER_OPEN", "RECV_DATA", "SERVER_OPEN"),
    Row("ConnectionInputs", "SERVER_OPEN", "RECV_GOAWAY", "CLOSED"),
    Row("ConnectionInputs", "SERVER_OPEN", "RECV_WINDOW_UPDATE", "SERVER_OPEN"),
    Row("ConnectlionInputs", "SERVER_OPEN", "RECV_PING", "SERVER_OPEN") >>

\* Executing the class body evaluates every key of the display; a key whose
\* name is not bound raises NameError, the class statement does not complete
\* and the import of h2.connection fails.
ClassBodyRaises ==
    \E k \in DOMAIN TransitionRows : TransitionRows[k].ns \notin ModuleGlobals

\* H2ConnectionStateMachine._transitions, when the class body completes:
\* (state, input) -> end state (the side-effect slot is None in every row).
_transitions ==
    [key \in {<<TransitionRows[k].from, TransitionRows[k].input>> :
                  k \in DOMAIN TransitionRows} |->
        LET k == CHOOSE j \in DOMAIN TransitionRows :
                     /\ <<TransitionRows[j].from, TransitionRows[j].input>> = key
                     /\ \A l \in DOMAIN TransitionRows :
                            <<TransitionRows[l].from, TransitionRows[l].input>> = key
                                => l <= j
        IN  TransitionRows[k].to]

\* Lines 104-112 of process_input as a function of (self.state, input_): the
\* table lookup, the KeyError branch and the assignment of the end state.
Transition(s, input_) ==
    IF <<s, input_>> \in DOMAIN _transitions
      THEN [state |-> _transitions[<<s, input_>>], err |-> "none"]
      ELSE [state |-> "CLOSED", err |-> "ProtocolError"]

\* The state after `import h2.connection` and `H2Connection()` were attempted.
\* H2Connection.__init__ builds the state machine (state IDLE, line 95) and an
\* empty stream map; neither exists when the module body raised.
ConnInit ==
    /\ conn_module = IF ClassBodyRaises THEN "NameError" ELSE "loaded"
    /\ state = IF ClassBodyRaises THEN "NoMachine" ELSE "IDLE"
    /\ streams = {}
    /\ inputs = << >>

NoCall == op = "none" /\ arg = "none" /\ err = "none"

\* H2ConnectionStateMachine.process_input(input_), lines 97-114.  The caller
\* passes a ConnectionInputs member, so the isinstance test passes.  Without
\* the class the call site raises NameError and there is no state to change.
process_input(input_) ==
    /\ Len(inputs) < MaxInputs
    /\ inputs' = Append(inputs, input_)
    /\ op' = "process_input"
    /\ arg' = input_
    /\ IF conn_module # "loaded"
         THEN /\ err' = "NameError"
              /\ state' = state
         ELSE /\ state' = Transition(state, input_).state
              /\ err' = Transition(state, input_).err
    /\ UNCHANGED <<conn_module, streams, flow_vars, hdr_vars>>

\* The bodies of the seven H2Connection methods (lines 137-177) are `pass`:
\* a call returns None and touches neither the state machine nor the map.
Facade(name, a) ==
    /\ op' = name
    /\ arg' = a
    /\ err' = IF conn_module # "loaded" THEN "NameError" ELSE "none"
    /\ UNCHANGED <<conn_vars, flow_vars, hdr_vars>>

begin_new_stream(stream_id) == Facade("begin_new_stream", stream_id)
send_headers_on_stream(stream_id) == Facade("send_headers_on_stream", stream_id)
send_data_on_stream(stream_id) == Facade("send_data_on_stream", stream_id)
end_stream(stream_id) == Facade("end_stream", stream_id)
increment_flow_control_window(stream_id) ==
    Facade("increment_flow_control_window", stream_id)
push_stream(stream_id) == Facade("push_stream", stream_id)
recieve_frame(frame) == Facade("recieve_frame", frame)

StreamIds == 1..MaxStreamId
\* The kinds of frame descriptor a peer can deliver.
FrameKinds == {"HEADERS", "PUSH_PROMISE", "DATA", "GOAWAY", "WINDOW_UPDATE", "PING"}

Idle ==
    /\ current = 0 /\ increment = 0 /\ new_size = "unset"
    /\ headers = << >> /\ hdr_validation_flags = "unset" /\ result = "unset"

Init == ConnInit /\ NoCall /\ Idle

Next ==
    \/ \E i \in ConnectionInputs : process_input(i)
    \/ \E sid \in StreamIds : begin_new_stream(sid)
    \/ \E sid \in StreamIds : send_headers_on_stream(sid)
    \/ \E sid \in StreamIds : send_data_on_stream(sid)
    \/ \E sid \in StreamIds : end_stream(sid)
    \/ \E sid \in StreamIds : increment_flow_control_window(sid)
    \/ \E sid \in StreamIds : push_stream(sid)
    \/ \E k \in FrameKinds : recieve_frame(k)

Spec == Init /\ [][Next]_vars

(***************************************************************************)
(* utilities.py: guard_increment_window                                    *)
(*                                                                         *)
(* Python integers are unbounded, so current + increment never wraps.  The *)
(* sums the function compares lie beyond the integers TLC can hold, so an  *)
(* integer is written Num(k, d) for k * (2^31 - 1) + d with |d| far below  *)
(* 2^31 - 1; sums are exact and the order is the lexicographic one.        *)
(***************************************************************************)
\* The largest value the flow control window may take (2**31 - 1).
LARGEST_FLOW_CONTROL_WINDOW == 2147483647

Num(k, d) == [k |-> k, d |-> d]
Plus(a, b) == Num(a.k + b.k, a.d + b.d)
Minus(a, b) == Num(a.k - b.k, a.d - b.d)
Greater(a, b) == a.k > b.k \/ (a.k = b.k /\ a.d > b.d)
Largest == Num(1, 0)

\* The windows and increments tried: the values within MaxDelta of
\* -(2^31 - 1), 0, 2^31 - 1 and 2 * (2^31 - 1).
FlowValues == {Num(k, d) : k \in -1..2, d \in -MaxDelta..MaxDelta}

\* The test of line 138 written with >= in place of >.
ExceedsLargest_Inclusive(n) == ~Greater(Largest, n)

\* The test of line 138.
ExceedsLargest(n) == Greater(n, Largest)

\* guard_increment_window(current, increment), lines 123-144.
guard_increment_window_result(cur, inc) ==
    LET size == Plus(cur, inc)
    IN  IF ExceedsLargest(size)
          THEN [err |-> "FlowControlError", value |-> "unset"]
          ELSE [err |-> "none", value |-> size]

guard_increment_window ==
    /\ op = "none"
    /\ op' = "guard_increment_window"
    /\ arg' = "none"
    /\ err' = guard_increment_window_result(current, increment).err
    /\ new_size' = guard_increment_window_result(current, increment).value
    /\ UNCHANGED <<current, increment, conn_vars, hdr_vars>>

FlowInit ==
    /\ current \in FlowValues
    /\ increment \in FlowValues
    /\ new_size = "unset"
    /\ NoCall
    /\ ConnInit
    /\ headers = << >> /\ hdr_validation_flags = "unset" /\ result = "unset"

FlowNext == guard_increment_window

FlowSpec == FlowInit /\ [][FlowNext]_vars

\* C8: guard_increment_window raises FlowControlError exactly when current +
\* increment exceeds 2^31 - 1, that is when the increment exceeds the room
\* 2^31 - 1 - current left in the window, and otherwise returns the sum,
\* whatever the signs of current and increment; (0, 2^31 - 1) returns
\* 2^31 - 1 and (-1, -2) returns -3.
C8_GuardIncrement ==
    (op = "guard_increment_window") =>
        /\ err \in {"none", "FlowControlError"}
        /\ (err = "FlowControlError") <=> Greater(increment, Minus(Largest, current))
        /\ (err = "none") => (Minus(new_size, increment) = current)
        /\ (err = "FlowControlError") => (new_size = "unset")
        /\ LET r == guard_increment_window_result(Num(0, 0), Num(1, 0))
           IN  r.err = "none" /\ r.value = Largest
        /\ LET r == guard_increment_window_result(Num(0, -1), Num(0, -2))
           IN  r.err = "none" /\ r.value = Num(0, -3)

\* guard_increment_window(2^31 - 2, 2) has been called and has raised.
C8_Witness ==
    /\ op = "guard_increment_window"
    /\ current = Num(1, -1)
    /\ increment = Num(0, 2)
    /\ err = "FlowControlError"

(***************************************************************************)
(* utilities.py: header validation                                         *)
(*                                                                         *)
(* A header name or value is a sequence of octets, written as a tuple of   *)
(* one-octet tokens ("SP", "HT", "LF", "CR", "VT", "FF" are the six        *)
(* whitespace octets).  A header is a record of its name, its value and    *)
(* the tuple class that carries it.                                        *)
(***************************************************************************)
UpperLetters == <<"A", "B", "C", "D", "E", "F", "G", "H", "I", "J", "K", "L", "M",
                  "N", "O", "P", "Q", "R", "S", "T", "U", "V", "W", "X", "Y", "Z">>
LowerLetters == <<"a", "b", "c", "d", "e", "f", "g", "h", "i", "j", "k", "l", "m",
                  "n", "o", "p", "q", "r", "s", "t", "u", "v", "w", "x", "y", "z">>

\* UPPER_RE = re.compile(b"[A-Z]"), line 17.
UPPER_RE == {UpperLetters[n] : n \in DOMAIN UpperLetters}

\* _WHITESPACE, lines 45-48: the octets of string.whitespace.
_WHITESPACE == {"SP", "HT", "LF", "CR", "VT", "FF"}

\* bytes.lower(): A-Z to a-z, every other octet unchanged.
LowerOctet(c) ==
    IF c \in UPPER_RE
      THEN LowerLetters[CHOOSE n \in DOMAIN UpperLetters : UpperLetters[n] = c]
      ELSE c
lower(str) == [n \in DOMAIN str |-> LowerOctet(str[n])]

\* CONNECTION_HEADERS, lines 21-27.
CONNECTION_HEADERS ==
    { <<"c", "o", "n", "n", "e", "c", "t", "i", "o", "n">>,
      <<"p", "r", "o", "x", "y", "-", "c", "o", "n", "n", "e", "c", "t", "i", "o", "n">>,
      <<"k", "e", "e", "p", "-", "a", "l", "i", "v", "e">>,
      <<"t", "r", "a", "n", "s", "f", "e", "r", "-", "e", "n", "c", "o", "d", "i", "n", "g">>,
      <<"u", "p", "g", "r", "a", "d", "e">> }

\* _ALLOWED_PSEUDO_HEADER_FIELDS, lines 30-36.
_ALLOWED_PSEUDO_HEADER_FIELDS ==
    { <<":", "m", "e", "t", "h", "o", "d">>,
      <<":", "s", "c", "h", "e", "m", "e">>,
      <<":", "a", "u", "t", "h", "o", "r", "i", "t", "y">>,
      <<":", "p", "a", "t", "h">>,
      <<":", "s", "t", "a", "t", "u", "s">> }

STATUS == <<":", "s", "t", "a", "t", "u", "s">>
AUTHORITY == <<":", "a", "u", "t", "h", "o", "r", "i", "t", "y">>
HOST == <<"h", "o", "s", "t">>
TE == <<"t", "e">>
TRAILERS == <<"t", "r", "a", "i", "l", "e", "r", "s">>

Header(name, value) == [name |-> name, value |-> value, kind |-> "HeaderTuple"]

\* HeaderValidationFlags, lines 172-175.
HeaderValidationFlags ==
    [is_client : BOOLEAN, is_trailer : BOOLEAN,
     is_response_header : BOOLEAN, is_push_promise : BOOLEAN]

NoError == [type |-> "none", by |-> "none", why |-> "none"]
ProtocolError(by, why) == [type |-> "ProtocolError", by |-> by, why |-> why]
IndexError(by) == [type |-> "IndexError", by |-> by, why |-> "index out of range"]

Smaller(a, b) == IF a < b THEN a ELSE b

(***************************************************************************)
(* A generator over a header block is described by what consuming it to    *)
(* the end produces: the headers it yields, in order, the exception that   *)
(* ends it (NoError when it is exhausted normally), and, for each          *)
(* generator of the chain below it, how many headers that one was handed.  *)
(***************************************************************************)
Source(block) == [items |-> block, raised |-> NoError, examined |-> << >>]

\* One generator of the chain: `for header in headers: <test>; yield header`
\* followed by the code after the loop.  field_errors[j] is what the loop
\* body raises on the j-th header it is handed, end_error what the code after
\* the loop raises.  A header is handed to the generator only once the
\* consumer has taken the previous one, so a raise on header j means the
\* generators upstream were never asked for more than j headers; an
\* exception raised upstream surfaces when the header after the last
\* yielded one is requested.
Generator(s, field_errors, end_error) ==
    LET bad == {j \in 1..Len(s.items) : field_errors[j] # NoError}
    IN  IF bad # {}
          THEN LET j == CHOOSE m \in bad : \A n \in bad : m <= n
               IN  [items |-> SubSeq(s.items, 1, j - 1),
                    raised |-> field_errors[j],
                    examined |-> Append([n \in DOMAIN s.examined |->
                                            Smaller(s.examined[n], j)], j)]
          ELSE [items |-> s.items,
                raised |-> IF s.raised # NoError THEN s.raised ELSE end_error,
                examined |-> Append(s.examined, Len(s.items))]

\* _reject_uppercase_header_fields, lines 216-225.
UppercaseFieldError(items, j) ==
    IF \E n \in DOMAIN items[j].name : items[j].name[n] \in UPPER_RE
      THEN ProtocolError("_reject_uppercase_header_fields", "uppercase header name")
      ELSE NoError

_reject_uppercase_header_fields(s, flags) ==
    Generator(s, [j \in DOMAIN s.items |-> UppercaseFieldError(s.items, j)], NoError)

\* _reject_surrounding_whitespace, lines 228-247.  header[0][0] on an empty
\* name raises IndexError.
WhitespaceFieldError(items, j) ==
    LET name == items[j].name
        value == items[j].value
    IN  IF name = << >>
          THEN IndexError("_reject_surrounding_whitespace")
        ELSE IF name[1] \in _WHITESPACE \/ name[Len(name)] \in _WHITESPACE
          THEN ProtocolError("_reject_surrounding_whitespace",
                             "header name surrounded by whitespace")
        ELSE IF value # << >> /\ (value[1] \in _WHITESPACE
                                   \/ value[Len(value)] \in _WHITESPACE)
          THEN ProtocolError("_reject_surrounding_whitespace",
                             "header value surrounded by whitespace")
        ELSE NoError

_reject_surrounding_whitespace(s, flags) ==
    Generator(s, [j \in DOMAIN s.items |-> WhitespaceFieldError(s.items, j)], NoError)

\* _reject_te, lines 250-263.
TeFieldError(items, j) ==
    IF items[j].name = TE /\ lower(items[j].value) # TRAILERS
      THEN ProtocolError("_reject_te", "invalid value for TE header")
      ELSE NoError

_reject_te(s, flags) ==
    Generator(s, [j \in DOMAIN s.items |-> TeFieldError(s.items, j)], NoError)

\* _reject_connection_header, lines 266-277.
ConnectionFieldError(items, j) ==
    IF items[j].name \in CONNECTION_HEADERS
      THEN ProtocolError("_reject_connection_header",
                         "connection-specific header field present")
      ELSE NoError

_reject_connection_header(s, flags) ==
    Generator(s, [j \in DOMAIN s.items |-> ConnectionFieldError(s.items, j)], NoError)

\* _custom_startswith, lines 280-288, for an octet string.
_custom_startswith(test_string, prefix) ==
    /\ Len(test_string) >= Len(prefix)
    /\ SubSeq(test_string, 1, Len(prefix)) = prefix

IsPseudo(header) == _custom_startswith(header.name, <<":">>)

\* seen_pseudo_header_fields and seen_regular_header when the loop of
\* _reject_pseudo_header_fields reaches the j-th header.
SeenPseudo(items, j) == {items[n].name : n \in {m \in 1..(j - 1) : IsPseudo(items[m])}}
SeenRegular(items, j) == \E n \in 1..(j - 1) : ~IsPseudo(items[n])

\* The loop body of _reject_pseudo_header_fields without the test of
\* seen_regular_header, lines 311-315.
PseudoFieldError_NoSequenceTest(items, j) ==
    IF ~IsPseudo(items[j]) THEN NoError
    ELSE IF items[j].name \in SeenPseudo(items, j)
      THEN ProtocolError("_reject_pseudo_header_fields", "duplicate pseudo-header field")
    ELSE IF items[j].name \notin _ALLOWED_PSEUDO_HEADER_FIELDS
      THEN ProtocolError("_reject_pseudo_header_fields", "custom pseudo-header field")
    ELSE NoError

\* _reject_pseudo_header_fields, lines 291-345: the loop body ...
PseudoFieldError(items, j) ==
    IF ~IsPseudo(items[j]) THEN NoError
    ELSE IF items[j].name \in SeenPseudo(items, j)
      THEN ProtocolError("_reject_pseudo_header_fields", "duplicate pseudo-header field")
    ELSE IF SeenRegular(items, j)
      THEN ProtocolError("_reject_pseudo_header_fields",
                         "pseudo-header field out of sequence")
    ELSE IF items[j].name \notin _ALLOWED_PSEUDO_HEADER_FIELDS
      THEN ProtocolError("_reject_pseudo_header_fields", "custom pseudo-header field")
    ELSE NoError

\* The tests after the loop without the trailer test of lines 327-332.
PseudoEndError_NoTrailerTest(items, flags) ==
    LET seen == SeenPseudo(items, Len(items) + 1)
    IN  IF flags.is_response_header /\ STATUS \notin seen
          THEN ProtocolError("_reject_pseudo_header_fields",
                             "response header block does not have a :status header")
        ELSE NoError

\* ... and the two tests after the loop.
PseudoEndError(items, flags) ==
    LET seen == SeenPseudo(items, Len(items) + 1)
    IN  IF flags.is_trailer /\ seen # {}
          THEN ProtocolError("_reject_pseudo_header_fields", "pseudo-header in trailer")
        ELSE IF flags.is_response_header /\ STATUS \notin seen
          THEN ProtocolError("_reject_pseudo_header_fields",
                             "response header block does not have a :status header")
        ELSE NoError

_reject_pseudo_header_fields(s, flags) ==
    Generator(s, [j \in DOMAIN s.items |-> PseudoFieldError(s.items, j)],
              PseudoEndError(s.items, flags))

\* Lines 365-372: authority_header_val and host_header_val hold the value of
\* the last header of that name, and stay None when there is none.
Named(items, name) == {n \in DOMAIN items : items[n].name = name}
LastValue(items, name) ==
    items[CHOOSE m \in Named(items, name) : \A n \in Named(items, name) : n <= m].value

\* The tests after the loop with host_header_val kept from the first host
\* header instead of being overwritten by each one, line 372.
HostAuthorityEndError_FirstHost(items) ==
    LET authority_present == Named(items, AUTHORITY) # {}
        host_present == Named(items, HOST) # {}
        first_host == items[CHOOSE m \in Named(items, HOST) :
                              \A n \in Named(items, HOST) : m <= n].value
    IN  IF ~authority_present /\ ~host_present
          THEN ProtocolError("_validate_host_authority_header",
                             "no :authority or Host header")
        ELSE IF authority_present /\ host_present
                /\ LastValue(items, AUTHORITY) # first_host
          THEN ProtocolError("_validate_host_authority_header",
                             "mismatched :authority and Host headers")
        ELSE NoError

\* _validate_host_authority_header, lines 348-395: the tests after the loop.
HostAuthorityEndError(items) ==
    LET authority_present == Named(items, AUTHORITY) # {}
        host_present == Named(items, HOST) # {}
    IN  IF ~authority_present /\ ~host_present
          THEN ProtocolError("_validate_host_authority_header",
                             "no :authority or Host header")
        ELSE IF authority_present /\ host_present
                /\ LastValue(items, AUTHORITY) # LastValue(items, HOST)
          THEN ProtocolError("_validate_host_authority_header",
                             "mismatched :authority and Host headers")
        ELSE NoError

\* _validate_host_authority_header reading the whole block and testing it
\* before it yields the first header.
_validate_host_authority_header_Eager(s) ==
    IF s.raised = NoError /\ HostAuthorityEndError(s.items) # NoError
      THEN [items |-> << >>,
            raised |-> HostAuthorityEndError(s.items),
            examined |-> Append(s.examined, Len(s.items))]
      ELSE Generator(s, [j \in DOMAIN s.items |-> NoError], NoError)

_validate_host_authority_header(s) ==
    Generator(s, [j \in DOMAIN s.items |-> NoError], HostAuthorityEndError(s.items))

\* _check_host_authority_header, lines 398-414.
_check_host_authority_header(s, flags) ==
    LET skip_validation == flags.is_response_header \/ flags.is_trailer
    IN  IF skip_validation THEN s ELSE _validate_host_authority_header(s)

\* The chain of lines 194-211 built with _reject_connection_header first.
InboundChain_ConnectionFirst(block, flags) ==
    _check_host_authority_header(
      _reject_pseudo_header_fields(
        _reject_te(
          _reject_surrounding_whitespace(
            _reject_uppercase_header_fields(
              _reject_connection_header(Source(block), flags),
              flags),
            flags),
          flags),
        flags),
      flags)

\* The generator chain validate_headers builds, lines 194-211.
InboundChain(block, flags) ==
    _check_host_authority_header(
      _reject_pseudo_header_fields(
        _reject_connection_header(
          _reject_te(
            _reject_surrounding_whitespace(
              _reject_uppercase_header_fields(Source(block), flags),
              flags),
            flags),
          flags),
        flags),
      flags)

\* list(headers), line 213: the chain is consumed to the end; an exception
\* raised on the way propagates and nothing is returned.
validate_headers_result(block, flags) ==
    LET s == InboundChain(block, flags)
    IN  [returned |-> IF s.raised = NoError THEN s.items ELSE "nothing",
         raised |-> s.raised,
         yielded |-> s.items,
         examined |-> s.examined]

validate_headers ==
    /\ op = "none"
    /\ op' = "validate_headers"
    /\ arg' = "none"
    /\ result' = validate_headers_result(headers, hdr_validation_flags)
    /\ err' = result'.raised.type
    /\ UNCHANGED <<headers, hdr_validation_flags, conn_vars, flow_vars>>

\* The header fields the blocks are drawn from.
HeaderPool == {
    Header(<<":", "m", "e", "t", "h", "o", "d">>, <<"G", "E", "T">>),
    Header(AUTHORITY, <<"x">>),
    Header(STATUS, <<"2", "0", "0">>),
    Header(<<":", "f", "o", "o">>, <<"1">>),
    Header(<<":", "F", "o", "o">>, <<"1">>),
    Header(<<"x">>, <<"1">>),
    Header(<<"x">>, << >>),
    Header(<<"X">>, <<"1">>),
    Header(<<"SP", "x">>, <<"1">>),
    Header(<<"x">>, <<"1", "HT">>),
    Header(<< >>, <<"1">>),
    Header(TE, TRAILERS),
    Header(TE, <<"T", "r", "a", "i", "l", "e", "r", "s">>),
    Header(TE, <<"g", "z", "i", "p">>),
    Header(TE, <<"SP", "g", "z", "i", "p">>),
    Header(<<"c", "o", "n", "n", "e", "c", "t", "i", "o", "n">>, <<"c", "l", "o", "s", "e">>),
    Header(<<"u", "p", "g", "r", "a", "d", "e">>, <<"LF", "h", "2", "c">>),
    Header(HOST, <<"x">>),
    Header(HOST, <<"y">>) }

RECURSIVE Blocks(_)
Blocks(n) ==
    IF n = 0 THEN {<< >>}
    ELSE Blocks(n - 1) \cup
         {Append(b, h) : b \in {c \in Blocks(n - 1) : Len(c) = n - 1}, h \in HeaderPool}

HdrInit ==
    /\ headers \in Blocks(MaxBlockLen)
    /\ hdr_validation_flags \in HeaderValidationFlags
    /\ result = "unset"
    /\ NoCall
    /\ ConnInit
    /\ current = 0 /\ increment = 0 /\ new_size = "unset"

HdrNext == validate_headers

HdrSpec == HdrInit /\ [][HdrNext]_vars

(***************************************************************************)
(* Claims about validate_headers                                           *)
(***************************************************************************)
Validated == op = "validate_headers"

\* C9: validate_headers either returns the block it was given, element by
\* element, or raises a ProtocolError; there is no third outcome.
C9_ReturnsBlockOrProtocolError ==
    Validated =>
        \/ (result.raised = NoError /\ result.returned = headers)
        \/ (result.raised.type = "ProtocolError" /\ result.raised # NoError)

\* The number each check has in the table of checks.
CheckNumber(by) ==
    CASE by = "_reject_uppercase_header_fields" -> 1
      [] by = "_reject_surrounding_whitespace" -> 2
      [] by = "_reject_te" -> 3
      [] by = "_reject_connection_header" -> 4
      [] by = "_reject_pseudo_header_fields" -> 5
      [] by = "_validate_host_authority_header" -> 6

\* What check k raises when it is run by itself over the whole block.
CheckAlone(k, block, flags) ==
    CASE k = 1 -> _reject_uppercase_header_fields(Source(block), flags).raised
      [] k = 2 -> _reject_surrounding_whitespace(Source(block), flags).raised
      [] k = 3 -> _reject_te(Source(block), flags).raised
      [] k = 4 -> _reject_connection_header(Source(block), flags).raised
      [] k = 5 -> _reject_pseudo_header_fields(Source(block), flags).raised
      [] k = 6 -> _check_host_authority_header(Source(block), flags).raised

\* C10 as stated: the ProtocolError raised is that of the lowest-numbered
\* check the block violates, and no higher-numbered check has run on the
\* block.
C10_LowestNumberedCheck ==
    (Validated /\ result.raised.type = "ProtocolError") =>
        LET c == CheckNumber(result.raised.by)
        IN  /\ \A k \in 1..(c - 1) :
                   CheckAlone(k, headers, hdr_validation_flags).type # "ProtocolError"
            /\ \A k \in (c + 1)..Len(result.examined) : result.examined[k] = 0

\* What check k (1..5) raises on the j-th field of the block.
FieldError(k, block, j) ==
    CASE k = 1 -> UppercaseFieldError(block, j)
      [] k = 2 -> WhitespaceFieldError(block, j)
      [] k = 3 -> TeFieldError(block, j)
      [] k = 4 -> ConnectionFieldError(block, j)
      [] k = 5 -> PseudoFieldError(block, j)

\* C10 as amended: validation is field by field.  The error raised is that
\* of the first field on which a check raises and, for that field, of the
\* lowest-numbered check that raises; the checks up to that one have examined
\* that field and no check has examined a later one.  When no field fails,
\* every check has examined every field and the end-of-block tests run,
\* those of check 5 before that of check 6.
C10_FirstFailingField ==
    Validated =>
        LET failing == {jk \in (DOMAIN headers) \X (1..5) :
                            FieldError(jk[2], headers, jk[1]) # NoError}
            first == CHOOSE jk \in failing : \A o \in failing :
                         jk[1] < o[1] \/ (jk[1] = o[1] /\ jk[2] <= o[2])
            end5 == PseudoEndError(headers, hdr_validation_flags)
            skip6 == \/ hdr_validation_flags.is_response_header
                     \/ hdr_validation_flags.is_trailer
        IN  IF failing # {}
              THEN /\ result.raised = FieldError(first[2], headers, first[1])
                   /\ result.yielded = SubSeq(headers, 1, first[1] - 1)
                   /\ \A k \in DOMAIN result.examined :
                          result.examined[k] =
                              IF k <= first[2] THEN first[1] ELSE first[1] - 1
              ELSE /\ result.raised =
                          IF end5 # NoError THEN end5
                          ELSE IF skip6 THEN NoError
                          ELSE HostAuthorityEndError(headers)
                   /\ \A k \in DOMAIN result.examined :
                          result.examined[k] = Len(headers)

\* A block whose first field violates check 4 and whose second field
\* violates check 1 has been validated, and check 4 is the one reported.
C10_Witness ==
    /\ Validated
    /\ Len(headers) = 2
    /\ ConnectionFieldError(headers, 1) # NoError
    /\ UppercaseFieldError(headers, 2) # NoError
    /\ result.raised.by = "_reject_connection_header"

(***************************************************************************)
(* Claims about the connection state machine and the facade.  A claim that *)
(* speaks of "state S" is read from the caller's side: S is the state a    *)
(* machine built by line 95 and stepped by lines 104-112 over the table as *)
(* written holds after the inputs handed to it so far.                     *)
(***************************************************************************)
Front(seq) == SubSeq(seq, 1, Len(seq) - 1)

Intended(seq) ==
    LET f[n \in 0..Len(seq)] ==
            IF n = 0 THEN "IDLE" ELSE Transition(f[n - 1], seq[n]).state
    IN  f[Len(seq)]

Stepped == op = "process_input"

\* C1: an input that the table does not list for the state IDLE, CLIENT_OPEN
\* or SERVER_OPEN the machine is in makes process_input raise ProtocolError
\* and leaves the state CLOSED.
C1_IllegalInputCloses ==
    (/\ Stepped
     /\ Intended(Front(inputs)) \in {"IDLE", "CLIENT_OPEN", "SERVER_OPEN"}
     /\ <<Intended(Front(inputs)), arg>> \notin DOMAIN _transitions)
        => (err = "ProtocolError" /\ state = "CLOSED")

\* C2: CLOSED is absorbing: every process_input call made once the machine
\* is CLOSED raises ProtocolError and the state stays CLOSED.
C2_ClosedAbsorbing ==
    (Stepped /\ Intended(Front(inputs)) = "CLOSED")
        => (err = "ProtocolError" /\ state = "CLOSED")

\* C3: the state machine can be constructed, and in SERVER_OPEN
\* process_input(RECV_PING) raises nothing and the state stays SERVER_OPEN.
C3_ServerRecvPing ==
    (/\ Stepped
     /\ Intended(Front(inputs)) = "SERVER_OPEN"
     /\ arg = "RECV_PING")
        => (conn_module = "loaded" /\ err = "none" /\ state = "SERVER_OPEN")

\* C4: a new machine is in IDLE; its first input moves it to CLIENT_OPEN
\* (SEND_HEADERS) or SERVER_OPEN (RECV_HEADERS) without error, and any of the
\* other ten inputs raises ProtocolError and leaves it CLOSED.
C4_IdleTransitions ==
    /\ inputs = << >> => state = "IDLE"
    /\ (Stepped /\ Len(inputs) = 1) =>
          CASE arg = "SEND_HEADERS" -> err = "none" /\ state = "CLIENT_OPEN"
            [] arg = "RECV_HEADERS" -> err = "none" /\ state = "SERVER_OPEN"
            [] OTHER -> err = "ProtocolError" /\ state = "CLOSED"

\* C5: PUSH_PROMISE is role-asymmetric: CLIENT_OPEN accepts RECV_PUSH_PROMISE
\* and rejects SEND_PUSH_PROMISE, SERVER_OPEN accepts SEND_PUSH_PROMISE and
\* rejects RECV_PUSH_PROMISE; a rejection raises ProtocolError and closes.
C5_PushPromiseAsymmetry ==
    LET S == Intended(Front(inputs))
        Accepted == err = "none" /\ state = S
        Rejected == err = "ProtocolError" /\ state = "CLOSED"
    IN  /\ (Stepped /\ S = "CLIENT_OPEN" /\ arg = "RECV_PUSH_PROMISE") => Accepted
        /\ (Stepped /\ S = "CLIENT_OPEN" /\ arg = "SEND_PUSH_PROMISE") => Rejected
        /\ (Stepped /\ S = "SERVER_OPEN" /\ arg = "SEND_PUSH_PROMISE") => Accepted
        /\ (Stepped /\ S = "SERVER_OPEN" /\ arg = "RECV_PUSH_PROMISE") => Rejected

\* C6: two machines fed the same inputs agree after every prefix.  Both runs
\* evaluate Transition on the same arguments, so the statement compares an
\* operator with itself; it is not stated as a property.

\* The connection input each facade operation stands for.
FacadeInput(name, a) ==
    CASE name = "send_headers_on_stream" -> "SEND_HEADERS"
      [] name = "send_data_on_stream" -> "SEND_DATA"
      [] name = "increment_flow_control_window" -> "SEND_WINDOW_UPDATE"
      [] name = "push_stream" -> "SEND_PUSH_PROMISE"
      [] name = "recieve_frame" /\ a = "HEADERS" -> "RECV_HEADERS"
      [] name = "recieve_frame" /\ a = "PUSH_PROMISE" -> "RECV_PUSH_PROMISE"
      [] name = "recieve_frame" /\ a = "DATA" -> "RECV_DATA"
      [] name = "recieve_frame" /\ a = "GOAWAY" -> "RECV_GOAWAY"
      [] name = "recieve_frame" /\ a = "WINDOW_UPDATE" -> "RECV_WINDOW_UPDATE"
      [] name = "recieve_frame" /\ a = "PING" -> "RECV_PING"

\* C7: a facade operation first steps the state machine with its input; a
\* failed step surfaces as ProtocolError and the stream map is untouched.
C7_FacadeStepsMachine ==
    (op \in {"send_headers_on_stream", "send_data_on_stream",
             "increment_flow_control_window", "push_stream", "recieve_frame"})
        => LET t == Transition(Intended(inputs), FacadeInput(op, arg))
           IN  /\ err = t.err
               /\ state = t.state
               /\ (t.err = "ProtocolError" => streams = {})

(***************************************************************************)
(* utilities.py: the checks of the chain applied on their own              *)
(***************************************************************************)
\* list(generator): what a caller gets from consuming a generator to the end.
Consumed(s) ==
    [returned |-> IF s.raised = NoError THEN s.items ELSE "nothing",
     raised |-> s.raised,
     yielded |-> s.items,
     examined |-> s.examined]

\* list(_reject_pseudo_header_fields(headers, hdr_validation_flags))
Consume_reject_pseudo_header_fields ==
    /\ op = "none"
    /\ op' = "_reject_pseudo_header_fields"
    /\ arg' = "none"
    /\ result' = Consumed(_reject_pseudo_header_fields(Source(headers),
                                                       hdr_validation_flags))
    /\ err' = result'.raised.type
    /\ UNCHANGED <<headers, hdr_validation_flags, conn_vars, flow_vars>>

\* list(_check_host_authority_header(headers, hdr_validation_flags))
Consume_check_host_authority_header ==
    /\ op = "none"
    /\ op' = "_check_host_authority_header"
    /\ arg' = "none"
    /\ result' = Consumed(_check_host_authority_header(Source(headers),
                                                       hdr_validation_flags))
    /\ err' = result'.raised.type
    /\ UNCHANGED <<headers, hdr_validation_flags, conn_vars, flow_vars>>

\* The header fields the blocks handed to one check are drawn from: what
\* these two checks read is the name, and the value of :authority and host.
CheckPool == {
    Header(<<":", "m", "e", "t", "h", "o", "d">>, <<"G", "E", "T">>),
    Header(STATUS, <<"2", "0", "0">>),
    Header(AUTHORITY, <<"x">>),
    Header(AUTHORITY, <<"y">>),
    Header(<<":", "f", "o", "o">>, <<"1">>),
    Header(<<"x">>, <<"1">>),
    Header(<< >>, <<"1">>),
    Header(HOST, <<"x">>),
    Header(HOST, <<"y">>) }

RECURSIVE BlocksOf(_, _)
BlocksOf(pool, n) ==
    IF n = 0 THEN {<< >>}
    ELSE BlocksOf(pool, n - 1) \cup
         {Append(b, h) : b \in {c \in BlocksOf(pool, n - 1) : Len(c) = n - 1},
                         h \in pool}

CheckInit ==
    /\ headers \in BlocksOf(CheckPool, MaxCheckLen)
    /\ hdr_validation_flags \in HeaderValidationFlags
    /\ result = "unset"
    /\ NoCall
    /\ ConnInit
    /\ current = 0 /\ increment = 0 /\ new_size = "unset"

CheckNext ==
    \/ Consume_reject_pseudo_header_fields
    \/ Consume_check_host_authority_header

CheckSpec == CheckInit /\ [][CheckNext]_vars

(***************************************************************************)
(* Claims about the pseudo-header and host/authority checks                *)
(***************************************************************************)
\* C11: the pseudo-header check raises ProtocolError at the first field
\* whose name starts with ':' and that repeats an earlier name, follows a
\* regular header, or is not one of the five allowed names: the fields
\* before it are yielded and no later field is examined.  A block without
\* such a field is yielded whole and the loop raises nothing.
C11_PseudoHeaderDiscipline ==
    op = "_reject_pseudo_header_fields" =>
        LET Colon(n) == headers[n].name # << >> /\ Head(headers[n].name) = ":"
            Offends(j) ==
                /\ Colon(j)
                /\ \/ \E i \in 1..(j - 1) : headers[i].name = headers[j].name
                   \/ \E i \in 1..(j - 1) : ~Colon(i)
                   \/ headers[j].name \notin _ALLOWED_PSEUDO_HEADER_FIELDS
            offenders == {j \in DOMAIN headers : Offends(j)}
            loop_reasons == {"duplicate pseudo-header field",
                             "pseudo-header field out of sequence",
                             "custom pseudo-header field"}
        IN  IF offenders # {}
              THEN LET first == CHOOSE m \in offenders : \A n \in offenders : m <= n
                   IN  /\ result.raised.type = "ProtocolError"
                       /\ result.raised.why \in loop_reasons
                       /\ result.yielded = SubSeq(headers, 1, first - 1)
                       /\ result.examined = <<first>>
              ELSE /\ result.raised.why \notin loop_reasons
                   /\ result.yielded = headers

C11_Witness ==
    /\ op = "_reject_pseudo_header_fields"
    /\ headers = <<Header(<<"x">>, <<"1">>),
                   Header(<<":", "m", "e", "t", "h", "o", "d">>, <<"G", "E", "T">>),
                   Header(STATUS, <<"2", "0", "0">>)>>
    /\ result.raised.why = "pseudo-header field out of sequence"
    /\ result.yielded = <<Header(<<"x">>, <<"1">>)>>

\* C12: once the whole block has been iterated, the pseudo-header check
\* raises ProtocolError if is_trailer is set and a pseudo-header was seen,
\* raises ProtocolError if is_response_header is set and :status was not
\* seen, and raises nothing when neither flag is set.
C12_EndOfBlock ==
    (op = "_reject_pseudo_header_fields" /\ result.yielded = headers) =>
        LET seen == {headers[n].name :
                       n \in {m \in DOMAIN headers :
                                /\ headers[m].name # << >>
                                /\ Head(headers[m].name) = ":"}}
        IN  /\ (hdr_validation_flags.is_trailer /\ seen # {})
                  => result.raised.type = "ProtocolError"
            /\ (hdr_validation_flags.is_response_header /\ STATUS \notin seen)
                  => result.raised.type = "ProtocolError"
            /\ (~hdr_validation_flags.is_trailer
                /\ ~hdr_validation_flags.is_response_header)
                  => result.raised = NoError

C12_Witness ==
    /\ op = "_reject_pseudo_header_fields"
    /\ hdr_validation_flags.is_trailer
    /\ ~hdr_validation_flags.is_response_header
    /\ headers = <<Header(STATUS, <<"2", "0", "0">>), Header(<<"x">>, <<"1">>)>>
    /\ result.yielded = headers
    /\ result.raised.why = "pseudo-header in trailer"

\* C13: for a request block (neither is_response_header nor is_trailer) the
\* host/authority check raises ProtocolError when the block has neither
\* :authority nor host, and when it has both and the value of :authority
\* differs from the value of the last host field; it raises nothing when
\* exactly one is present or both agree.  With either flag set the check
\* is skipped: every block passes.
C13_HostAuthority ==
    op = "_check_host_authority_header" =>
        LET authority == {n \in DOMAIN headers : headers[n].name = AUTHORITY}
            host == {n \in DOMAIN headers : headers[n].name = HOST}
            Last(S) == CHOOSE m \in S : \A n \in S : n <= m
            skipped == \/ hdr_validation_flags.is_response_header
                       \/ hdr_validation_flags.is_trailer
        IN  /\ result.yielded = headers
            /\ IF skipped THEN result.raised = NoError
               ELSE IF authority = {} /\ host = {}
                 THEN result.raised.type = "ProtocolError"
               ELSE IF /\ authority # {} /\ host # {}
                       /\ headers[Last(authority)].value # headers[Last(host)].value
                 THEN result.raised.type = "ProtocolError"
               ELSE result.raised = NoError

C13_Witness ==
    /\ op = "_check_host_authority_header"
    /\ ~hdr_validation_flags.is_response_header
    /\ ~hdr_validation_flags.is_trailer
    /\ headers = <<Header(AUTHORITY, <<"x">>), Header(HOST, <<"x">>),
                   Header(HOST, <<"y">>)>>
    /\ result.raised.why = "mismatched :authority and Host headers"

\* C14: validate_headers raises ProtocolError for every block that contains
\* a field named connection, proxy-connection, keep-alive,
\* transfer-encoding or upgrade, whatever the flags and wherever the field
\* stands in the block.
C14_ConnectionHeaderRejected ==
    (Validated /\ \E n \in DOMAIN headers : headers[n].name \in CONNECTION_HEADERS)
        => result.raised.type = "ProtocolError"

(***************************************************************************)
(* utilities.py: normalize_outbound_headers and validate_outbound_headers  *)
(***************************************************************************)
\* The three shapes a header comes in: a plain two-tuple, hpack's
\* HeaderTuple, and its subclass NeverIndexedHeaderTuple.
Tuple(name, value) == [name |-> name, value |-> value, kind |-> "tuple"]
NeverIndexedHeaderTuple(name, value) ==
    [name |-> name, value |-> value, kind |-> "NeverIndexedHeaderTuple"]

\* isinstance(header, HeaderTuple), lines 424 and 438.
IsHeaderTuple(header) == header.kind \in {"HeaderTuple", "NeverIndexedHeaderTuple"}

\* bytes.lstrip(): leading whitespace octets removed.
strip_Leading(str) ==
    LET solid == {n \in DOMAIN str : str[n] \notin _WHITESPACE}
    IN  IF solid = {} THEN << >>
        ELSE SubSeq(str, CHOOSE m \in solid : \A n \in solid : m <= n, Len(str))

\* bytes.strip(): leading and trailing whitespace octets removed.
strip(str) ==
    LET solid == {n \in DOMAIN str : str[n] \notin _WHITESPACE}
    IN  IF solid = {} THEN << >>
        ELSE SubSeq(str, CHOOSE m \in solid : \A n \in solid : m <= n,
                         CHOOSE m \in solid : \A n \in solid : n <= m)

\* _lowercase_header_names, lines 417-427.
_lowercase_header_names(hs, flags) ==
    [n \in DOMAIN hs |->
        IF IsHeaderTuple(hs[n])
          THEN [name |-> lower(hs[n].name), value |-> hs[n].value, kind |-> hs[n].kind]
          ELSE Tuple(lower(hs[n].name), hs[n].value)]

\* _strip_surrounding_whitespace, lines 430-441.
_strip_surrounding_whitespace(hs, flags) ==
    [n \in DOMAIN hs |->
        IF IsHeaderTuple(hs[n])
          THEN [name |-> strip(hs[n].name), value |-> strip(hs[n].value),
                kind |-> hs[n].kind]
          ELSE Tuple(strip(hs[n].name), strip(hs[n].value))]

\* _strip_connection_headers leaving the loop at the first connection header
\* instead of skipping it.
_strip_connection_headers_StopsAtFirst(hs, flags) ==
    LET dropped == {n \in DOMAIN hs : hs[n].name \in CONNECTION_HEADERS}
    IN  IF dropped = {} THEN hs
        ELSE SubSeq(hs, 1, (CHOOSE m \in dropped : \A n \in dropped : m <= n) - 1)

\* _strip_connection_headers, lines 444-450.
_strip_connection_headers(hs, flags) ==
    LET Kept(header) == header.name \notin CONNECTION_HEADERS
    IN  SelectSeq(hs, Kept)

\* _SECURE_HEADERS, lines 39-43.
_SECURE_HEADERS ==
    { <<"a", "u", "t", "h", "o", "r", "i", "z", "a", "t", "i", "o", "n">>,
      <<"p", "r", "o", "x", "y", "-",
        "a", "u", "t", "h", "o", "r", "i", "z", "a", "t", "i", "o", "n">> }

COOKIE == <<"c", "o", "o", "k", "i", "e">>

\* _secure_headers with the cookie test written `<= 20`.
_secure_headers_Inclusive(hs, flags) ==
    [n \in DOMAIN hs |->
        IF hs[n].name \in _SECURE_HEADERS
          THEN NeverIndexedHeaderTuple(hs[n].name, hs[n].value)
        ELSE IF hs[n].name = COOKIE /\ Len(hs[n].value) <= 20
          THEN NeverIndexedHeaderTuple(hs[n].name, hs[n].value)
        ELSE hs[n]]

\* _secure_headers, lines 51-75.
_secure_headers(hs, flags) ==
    [n \in DOMAIN hs |->
        IF hs[n].name \in _SECURE_HEADERS
          THEN NeverIndexedHeaderTuple(hs[n].name, hs[n].value)
        ELSE IF hs[n].name = COOKIE /\ Len(hs[n].value) < 20
          THEN NeverIndexedHeaderTuple(hs[n].name, hs[n].value)
        ELSE hs[n]]

\* The chain of lines 479-482 with connection headers dropped before the
\* whitespace is stripped.
NormalizeChain_ConnectionBeforeStrip(hs, flags) ==
    _secure_headers(
      _strip_surrounding_whitespace(
        _strip_connection_headers(
          _lowercase_header_names(hs, flags),
          flags),
        flags),
      flags)

\* The generator chain normalize_outbound_headers builds, lines 479-482.
\* None of its generators raises, so the chain is described by the headers
\* it yields.
NormalizeChain(hs, flags) ==
    _secure_headers(
      _strip_connection_headers(
        _strip_surrounding_whitespace(
          _lowercase_header_names(hs, flags),
          flags),
        flags),
      flags)

\* _check_sent_host_authority_header, lines 453-469.
_check_sent_host_authority_header(s, flags) ==
    LET skip_validation == flags.is_response_header \/ flags.is_trailer
    IN  IF skip_validation THEN s ELSE _validate_host_authority_header(s)

\* The generator chain validate_outbound_headers builds, lines 494-505.
OutboundChain(block, flags) ==
    _check_sent_host_authority_header(
      _reject_pseudo_header_fields(
        _reject_connection_header(
          _reject_te(Source(block), flags),
          flags),
        flags),
      flags)

\* list(normalize_outbound_headers(headers, hdr_validation_flags))
normalize_outbound_headers ==
    /\ op = "none"
    /\ op' = "normalize_outbound_headers"
    /\ arg' = "headers"
    /\ result' = [returned |-> NormalizeChain(headers, hdr_validation_flags)]
    /\ err' = "none"
    /\ UNCHANGED <<headers, hdr_validation_flags, conn_vars, flow_vars>>

\* The normalized block handed to normalize_outbound_headers once more.
normalize_again ==
    /\ op = "normalize_outbound_headers"
    /\ arg = "headers"
    /\ op' = "normalize_outbound_headers"
    /\ arg' = "normalized"
    /\ result' = [returned |-> NormalizeChain(result.returned, hdr_validation_flags),
                  input |-> result.returned]
    /\ err' = "none"
    /\ UNCHANGED <<headers, hdr_validation_flags, conn_vars, flow_vars>>

\* validate_outbound_headers(block, hdr_validation_flags), lines 487-507, on
\* the caller's block or on the block normalize_outbound_headers returned.
\* The call builds the chain and returns it: _reject_te,
\* _reject_connection_header, _reject_pseudo_header_fields and
\* _validate_host_authority_header are generator functions, whose bodies do
\* not run until the first header is asked for.  generator describes what
\* the returned generator is going to do, yielded what the caller has taken
\* from it so far.
validate_outbound_headers ==
    /\ \/ op = "none"
       \/ op = "normalize_outbound_headers" /\ arg = "headers"
    /\ LET block == IF op = "none" THEN headers ELSE result.returned
       IN  /\ result' = [input |-> block,
                         generator |-> OutboundChain(block, hdr_validation_flags),
                         yielded |-> << >>,
                         raised |-> NoError,
                         exhausted |-> FALSE]
           /\ arg' = IF op = "none" THEN "headers" ELSE "normalized"
    /\ op' = "validate_outbound_headers"
    /\ err' = "none"
    /\ UNCHANGED <<headers, hdr_validation_flags, conn_vars, flow_vars>>

\* next() on the generator validate_outbound_headers returned: the caller
\* is handed the next header, or the exception that ends the generator
\* (StopIteration when the chain is exhausted normally).
next_header ==
    /\ op \in {"validate_outbound_headers", "next"}
    /\ ~result.exhausted
    /\ result.raised = NoError
    /\ LET g == result.generator
           k == Len(result.yielded)
       IN  IF k < Len(g.items)
             THEN /\ result' = [result EXCEPT !.yielded = Append(@, g.items[k + 1])]
                  /\ err' = "none"
           ELSE IF g.raised # NoError
             THEN /\ result' = [result EXCEPT !.raised = g.raised]
                  /\ err' = g.raised.type
           ELSE /\ result' = [result EXCEPT !.exhausted = TRUE]
                /\ err' = "StopIteration"
    /\ op' = "next"
    /\ UNCHANGED <<arg, headers, hdr_validation_flags, conn_vars, flow_vars>>

Octets(c, n) == [k \in 1..n |-> c]

\* The header fields the outbound blocks are drawn from.
OutPool == {
    Tuple(<<"A", "u", "t", "h", "o", "r", "i", "z", "a", "t", "i", "o", "n">>, <<"x">>),
    Header(<<"p", "r", "o", "x", "y", "-",
             "a", "u", "t", "h", "o", "r", "i", "z", "a", "t", "i", "o", "n">>, <<"x">>),
    Tuple(COOKIE, Octets("a", 19)),
    Tuple(COOKIE, Octets("a", 20)),
    Header(<<"C", "o", "o", "k", "i", "e">>, <<"SP">> \o Octets("a", 19)),
    NeverIndexedHeaderTuple(COOKIE, Octets("a", 20)),
    NeverIndexedHeaderTuple(<<"X">>, <<"1">>),
    Header(<<"SP", "u", "p", "g", "r", "a", "d", "e", "SP">>, <<"h", "2", "c">>),
    Tuple(<<"C", "o", "n", "n", "e", "c", "t", "i", "o", "n">>, <<"c", "l", "o", "s", "e">>),
    Tuple(<<"SP", "k", "e", "e", "p", "-", "a", "l", "i", "v", "e", "SP">>, <<"1">>),
    Header(<<"x">>, <<"SP", "FF", "1", "HT">>),
    Tuple(<<"HT", "X", "LF">>, << >>),
    Tuple(<<"SP">>, <<"1">>),
    Header(STATUS, <<"2", "0", "0">>),
    Header(AUTHORITY, <<"x">>),
    Tuple(HOST, <<"CR", "y">>),
    Header(TE, <<"g", "z", "i", "p", "VT">>) }

OutInit ==
    /\ headers \in BlocksOf(OutPool, MaxOutLen)
    /\ hdr_validation_flags \in HeaderValidationFlags
    /\ result = "unset"
    /\ NoCall
    /\ ConnInit
    /\ current = 0 /\ increment = 0 /\ new_size = "unset"

OutNext ==
    \/ normalize_outbound_headers
    \/ normalize_again
    \/ validate_outbound_headers
    \/ next_header

OutSpec == OutInit /\ [][OutNext]_vars

(***************************************************************************)
(* Claims about outbound normalization                                     *)
(***************************************************************************)
Normalized == op = "normalize_outbound_headers" /\ arg = "headers"

\* C15: in the output of normalize_outbound_headers a field is never-indexed
\* exactly when its name is authorization or proxy-authorization, or its
\* name is cookie and its emitted value is shorter than 20 octets, or the
\* caller supplied it never-indexed.  The output fields are the input fields
\* whose lowercased, stripped name is not a connection-specific one, in order.
C15_NeverIndexed ==
    Normalized =>
        LET Survives(header) == strip(lower(header.name)) \notin CONNECTION_HEADERS
            kept == SelectSeq(headers, Survives)
            out == result.returned
        IN  /\ Len(out) = Len(kept)
            /\ \A n \in DOMAIN out :
                  (out[n].kind = "NeverIndexedHeaderTuple") <=>
                      \/ out[n].name \in
                           { <<"a", "u", "t", "h", "o", "r", "i", "z", "a", "t", "i", "o", "n">>,
                             <<"p", "r", "o", "x", "y", "-", "a", "u", "t", "h",
                               "o", "r", "i", "z", "a", "t", "i", "o", "n">> }
                      \/ (out[n].name = <<"c", "o", "o", "k", "i", "e">>
                          /\ Len(out[n].value) < 20)
                      \/ kept[n].kind = "NeverIndexedHeaderTuple"

C15_Witness ==
    /\ Normalized
    /\ headers = <<Tuple(COOKIE, Octets("a", 19)), Tuple(COOKIE, Octets("a", 20))>>
    /\ result.returned = <<NeverIndexedHeaderTuple(COOKIE, Octets("a", 19)),
                           Tuple(COOKIE, Octets("a", 20))>>

\* C16: every name in the output of normalize_outbound_headers has no
\* uppercase ASCII octet and neither begins nor ends with a whitespace octet
\* (space, tab, LF, CR, FF, VT).
C16_NamesNormalized ==
    Normalized =>
        \A n \in DOMAIN result.returned :
            LET name == result.returned[n].name
                blank == {"SP", "HT", "LF", "CR", "FF", "VT"}
            IN  /\ \A k \in DOMAIN name :
                      \A u \in DOMAIN UpperLetters : name[k] # UpperLetters[u]
                /\ name # << >> => (name[1] \notin blank /\ name[Len(name)] \notin blank)

C16_Witness ==
    /\ Normalized
    /\ headers = <<Tuple(<<"HT", "X", "LF">>, << >>)>>
    /\ result.returned = <<Tuple(<<"x">>, << >>)>>

\* C17: normalize_outbound_headers is idempotent: normalizing its own
\* output yields the same sequence of names, values and sensitivities.
C17_Idempotent ==
    (op = "normalize_outbound_headers" /\ arg = "normalized") =>
        /\ Len(result.returned) = Len(result.input)
        /\ \A n \in DOMAIN result.returned :
              /\ result.returned[n].name = result.input[n].name
              /\ result.returned[n].value = result.input[n].value
              /\ (result.returned[n].kind = "NeverIndexedHeaderTuple")
                    <=> (result.input[n].kind = "NeverIndexedHeaderTuple")

C17_Witness ==
    /\ op = "normalize_outbound_headers" /\ arg = "normalized"
    /\ headers = <<Header(<<"SP", "u", "p", "g", "r", "a", "d", "e", "SP">>, <<"h", "2", "c">>),
                   Header(<<"C", "o", "o", "k", "i", "e">>, <<"SP">> \o Octets("a", 19))>>
    /\ result.input = <<NeverIndexedHeaderTuple(COOKIE, Octets("a", 19))>>
    /\ result.returned = result.input

\* C18: the output of normalize_outbound_headers passes inbound checks 1
\* and 2 and holds no connection-specific header, so validate_outbound_headers
\* applied to it raises exactly when validate_headers applied to it raises.
C18_OutboundChecksSuffice ==
    (/\ op = "next" /\ arg = "normalized"
     /\ (result.exhausted \/ result.raised # NoError)) =>
        LET block == result.input
        IN  /\ _reject_uppercase_header_fields(Source(block),
                                               hdr_validation_flags).raised = NoError
            /\ _reject_surrounding_whitespace(Source(block),
                                              hdr_validation_flags).raised = NoError
            /\ \A n \in DOMAIN block : block[n].name \notin CONNECTION_HEADERS
            /\ (result.raised # NoError)
                  <=> (validate_headers_result(block, hdr_validation_flags).raised
                          # NoError)

(***************************************************************************)
(* utilities.py: is_informational_response                                 *)
(***************************************************************************)
\* is_informational_response, lines 90-120.  The loop returns at the first
\* header whose name does not start with ':' (False) or is :status (whether
\* its value starts with '1'); when no header makes it return, the function
\* ends without a return statement and the call evaluates to None.
\* examined is the number of headers the loop has read.
is_informational_response_result(hs) ==
    LET returning == {n \in DOMAIN hs :
                        \/ ~_custom_startswith(hs[n].name, <<":">>)
                        \/ hs[n].name = STATUS}
    IN  IF returning = {}
          THEN [returned |-> "None", examined |-> Len(hs)]
          ELSE LET n == CHOOSE m \in returning : \A k \in returning : m <= k
               IN  [returned |->
                       IF ~_custom_startswith(hs[n].name, <<":">>) THEN "False"
                       ELSE IF _custom_startswith(hs[n].value, <<"1">>) THEN "True"
                       ELSE "False",
                    examined |-> n]

is_informational_response ==
    /\ op = "none"
    /\ op' = "is_informational_response"
    /\ arg' = "none"
    /\ result' = is_informational_response_result(headers)
    /\ err' = "none"
    /\ UNCHANGED <<headers, hdr_validation_flags, conn_vars, flow_vars>>

\* The header fields the blocks handed to is_informational_response are
\* drawn from.
InfoPool == {
    Header(STATUS, <<"1", "0", "0">>),
    Header(STATUS, <<"1", "9", "9">>),
    Header(STATUS, <<"1">>),
    Header(STATUS, <<"2", "0", "0">>),
    Header(STATUS, <<"2", "1">>),
    Header(STATUS, << >>),
    Header(<<":", "m", "e", "t", "h", "o", "d">>, <<"G", "E", "T">>),
    Header(<<"x">>, <<"1", "0", "0">>),
    Header(<< >>, <<"1">>) }

InfoInit ==
    /\ headers \in BlocksOf(InfoPool, MaxInfoLen)
    /\ hdr_validation_flags = [is_client |-> FALSE, is_trailer |-> FALSE,
                               is_response_header |-> TRUE, is_push_promise |-> FALSE]
    /\ result = "unset"
    /\ NoCall
    /\ ConnInit
    /\ current = 0 /\ increment = 0 /\ new_size = "unset"

InfoNext == is_informational_response

InfoSpec == InfoInit /\ [][InfoNext]_vars

\* C19: is_informational_response reads only the leading run of fields
\* whose names start with ':' (and the field that ends the run) and returns
\* a boolean in every case: True exactly when :status is found in that run
\* with a value beginning with '1', False otherwise, the empty block and a
\* block of only non-status pseudo-headers included.
C19_InformationalResponse ==
    op = "is_informational_response" =>
        LET Colon(n) == headers[n].name # << >> /\ Head(headers[n].name) = ":"
            prefix == {n \in DOMAIN headers : \A m \in 1..n : Colon(m)}
            status == {n \in prefix : headers[n].name = STATUS}
            informational ==
                /\ status # {}
                /\ LET v == headers[CHOOSE m \in status : \A n \in status : m <= n].value
                   IN  v # << >> /\ Head(v) = "1"
        IN  /\ result.returned \in {"True", "False"}
            /\ (result.returned = "True") <=> informational
            /\ result.examined <= Cardinality(prefix) + 1

(***************************************************************************)
(* Claims about the state machine, continued                               *)
(***************************************************************************)
\* C20: in CLIENT_OPEN and in SERVER_OPEN, SEND_GOAWAY and RECV_GOAWAY each
\* move the machine to CLOSED without an error and every other input legal
\* in that state leaves the state unchanged; the machine enters CLOSED only
\* by a GOAWAY processed in an open state or by a rejected input.
C20_GoawayCloses ==
    LET S == Intended(Front(inputs))
        open == {"CLIENT_OPEN", "SERVER_OPEN"}
        goaway == {"SEND_GOAWAY", "RECV_GOAWAY"}
    IN  /\ (Stepped /\ S \in open /\ arg \in goaway)
              => (err = "none" /\ state = "CLOSED")
        /\ (Stepped /\ S \in open /\ arg \notin goaway
            /\ <<S, arg>> \in DOMAIN _transitions)
              => (err = "none" /\ state = S)
        /\ (Stepped /\ S # "CLOSED" /\ state = "CLOSED")
              => ((S \in open /\ arg \in goaway) \/ err = "ProtocolError")

(***************************************************************************)
(* Claims about outbound normalization, continued                          *)
(***************************************************************************)
\* C21: normalize_outbound_headers drops exactly the fields whose
\* lowercased, stripped name is a connection-specific header and emits
\* every other field once, in its original relative order: the output is as
\* long as the input less the dropped fields, and the k-th field that is
\* not dropped comes out k-th, with its name lowercased and stripped and
\* its value stripped.
C21_ConnectionHeadersDropped ==
    Normalized =>
        LET dropped == {n \in DOMAIN headers :
                          strip(lower(headers[n].name)) \in CONNECTION_HEADERS}
            Rank(n) == Cardinality({m \in 1..n : m \notin dropped})
            out == result.returned
        IN  /\ Len(out) = Len(headers) - Cardinality(dropped)
            /\ \A n \in DOMAIN headers \ dropped :
                  /\ out[Rank(n)].name = strip(lower(headers[n].name))
                  /\ out[Rank(n)].value = strip(headers[n].value)

C21_Witness ==
    /\ Normalized
    /\ headers = <<Tuple(<<"SP", "k", "e", "e", "p", "-", "a", "l", "i", "v", "e", "SP">>,
                         <<"1">>),
                   Header(<<"x">>, <<"SP", "FF", "1", "HT">>)>>
    /\ result.returned = <<Header(<<"x">>, <<"1">>)>>

\* C22: validate_outbound_headers raises nothing when it is called; it
\* fails only while its result is consumed.  A failure on a field (te,
\* connection-specific, duplicate, out-of-sequence or unknown pseudo-header)
\* is raised when that field is asked for, after the fields before it were
\* yielded and before it is; an end-of-block failure (pseudo-header in a
\* trailer, response without :status, missing or mismatching
\* :authority/host) is raised only after every field was yielded.
C22_LazyOutboundValidation ==
    /\ op = "validate_outbound_headers" => (err = "none" /\ result.yielded = << >>)
    /\ op = "next" =>
        LET block == result.input
            Colon(n) == block[n].name # << >> /\ Head(block[n].name) = ":"
            Offends(j) ==
                \/ block[j].name = <<"t", "e">>
                   /\ lower(block[j].value) # <<"t", "r", "a", "i", "l", "e", "r", "s">>
                \/ block[j].name \in CONNECTION_HEADERS
                \/ /\ Colon(j)
                   /\ \/ \E i \in 1..(j - 1) : block[i].name = block[j].name
                      \/ \E i \in 1..(j - 1) : ~Colon(i)
                      \/ block[j].name \notin _ALLOWED_PSEUDO_HEADER_FIELDS
            offenders == {j \in DOMAIN block : Offends(j)}
            on_a_field == {"invalid value for TE header",
                           "connection-specific header field present",
                           "duplicate pseudo-header field",
                           "pseudo-header field out of sequence",
                           "custom pseudo-header field"}
            at_the_end == {"pseudo-header in trailer",
                           "response header block does not have a :status header",
                           "no :authority or Host header",
                           "mismatched :authority and Host headers"}
        IN  /\ result.raised = NoError =>
                  /\ Len(result.yielded) <= Len(block)
                  /\ \A n \in DOMAIN result.yielded :
                        result.yielded[n] = block[n] /\ n \notin offenders
                  /\ err \in {"none", "StopIteration"}
                  /\ result.exhausted => result.yielded = block
            /\ result.raised # NoError =>
                  /\ err = "ProtocolError"
                  /\ result.raised.why \in on_a_field \cup at_the_end
            /\ result.raised.why \in on_a_field =>
                  /\ offenders # {}
                  /\ result.yielded =
                        SubSeq(block, 1,
                               (CHOOSE m \in offenders : \A n \in offenders : m <= n) - 1)
            /\ result.raised.why \in at_the_end =>
                  /\ offenders = {}
                  /\ result.yielded = block

C22_Witness ==
    /\ op = "next" /\ arg = "headers"
    /\ hdr_validation_flags.is_trailer
    /\ headers = <<Header(STATUS, <<"2", "0", "0">>), Tuple(COOKIE, Octets("a", 19))>>
    /\ result.yielded = headers
    /\ result.raised.why = "pseudo-header in trailer"

\* C23: the role is fixed by the first accepted input.  After every
\* process_input call the machine is in one of its four states; the call
\* either left the state as it was, moved IDLE to CLIENT_OPEN or
\* SERVER_OPEN, or closed the machine; and a machine that has been in
\* CLIENT_OPEN is not in SERVER_OPEN (nor the reverse), and one that has
\* left IDLE is not in IDLE.
C23_RoleLocking ==
    Stepped =>
        LET Before(k) == Intended(SubSeq(inputs, 1, k))
            S == Intended(Front(inputs))
        IN  /\ state \in ConnectionState
            /\ \/ state = S
               \/ S = "IDLE" /\ state \in {"CLIENT_OPEN", "SERVER_OPEN"}
               \/ state = "CLOSED"
            /\ \A k \in 0..(Len(inputs) - 1) :
                  /\ Before(k) = "CLIENT_OPEN" => state # "SERVER_OPEN"
                  /\ Before(k) = "SERVER_OPEN" => state # "CLIENT_OPEN"
                  /\ Before(k) # "IDLE" => state # "IDLE"
====
